---- MODULE Spec2Model ----
(***************************************************************************)
(* SCVersionList: the manifest builder (generate_github.py) and the mirror *)
(* rewriter (gitee.py).                                                    *)
(*                                                                         *)
(* A Python str is a sequence of one-character strings, so that regular    *)
(* expressions, str.replace, percent-encoding and JSON serialisation are   *)
(* computed character by character.  A Python/JSON value is a tagged       *)
(* record: Str, Num, Null (None), List, Dict (insertion-ordered pairs).    *)
(***************************************************************************)
EXTENDS Integers, Sequences, FiniteSets, TLC

VARIABLES
    fs,             \* directory snapshot: folder name -> [status, entries]
    dest,           \* manifest.json on disk: [exists, data]
    dest_before,    \* manifest.json as it was when the current run started
    pc,             \* position of the run of generate_github.py
    k,              \* index into target_folders of the folder to scan next
    manifest,       \* the manifest dict under construction
    json_manifest,  \* the string returned by generate_json_manifest
    log,            \* messages printed by the current run
    returned,       \* strings returned by the earlier runs over the same tree
    pf_in,          \* parse_file_info: the file handed in
    pf_out,         \* parse_file_info: the dict returned
    rw_doc,         \* gitee.py: the JSON document of the input file
    rw_pc,          \* gitee.py: position of the rewriter
    rw_out          \* gitee.py: documents written by successive runs

vars == <<fs, dest, dest_before, pc, k, manifest, json_manifest, log,
          returned, pf_in, pf_out, rw_doc, rw_pc, rw_out>>

build_vars == <<fs, dest, dest_before, pc, k, manifest, json_manifest,
                log, returned>>
parse_vars == <<pf_in, pf_out>>
rewrite_vars == <<rw_doc, rw_pc, rw_out>>

-----------------------------------------------------------------------------
(* Characters and strings *)

Digits == <<"0","1","2","3","4","5","6","7","8","9">>

LowerLetters == {"a","b","c","d","e","f","g","h","i","j","k","l","m","n","o","p","q","r","s","t","u","v","w","x","y","z"}

UpperLetters == {"A","B","C","D","E","F","G","H","I","J","K","L","M","N","O","P","Q","R","S","T","U","V","W","X","Y","Z"}

IsDigit(c) == \E i \in 1..Len(Digits) : Digits[i] = c

DigitVal(c) == (CHOOSE i \in 1..Len(Digits) : Digits[i] = c) - 1

\* index just after the maximal run of digits that starts at i (i when none)
RECURSIVE DigitsEnd(_, _)
DigitsEnd(s, i) ==
    IF i <= Len(s) /\ IsDigit(s[i]) THEN DigitsEnd(s, i + 1) ELSE i

\* int(str) of a string of decimal digits
RECURSIVE py_int(_)
py_int(s) ==
    IF s = <<>> THEN 0
    ELSE 10 * py_int(SubSeq(s, 1, Len(s) - 1)) + DigitVal(s[Len(s)])

\* str(n) of a non-negative integer
RECURSIVE py_str(_)
py_str(n) ==
    IF n < 10 THEN <<Digits[n + 1]>>
    ELSE py_str(n \div 10) \o <<Digits[(n % 10) + 1]>>

StartsAt(s, i, p) ==
    /\ i + Len(p) - 1 <= Len(s)
    /\ SubSeq(s, i, i + Len(p) - 1) = p

\* p in s
Contains(s, p) == \E i \in 1..Len(s) : StartsAt(s, i, p)

Min(S) == CHOOSE x \in S : \A y \in S : x <= y

\* the concatenation of parts[lo], ..., parts[hi], halving the range
RECURSIVE concat(_, _, _)
concat(parts, lo, hi) ==
    IF lo > hi THEN <<>>
    ELSE IF lo = hi THEN parts[lo]
    ELSE concat(parts, lo, (lo + hi) \div 2) \o concat(parts, ((lo + hi) \div 2) + 1, hi)

\* re.findall(r"\d+", s): the maximal digit runs of s from position i on
RECURSIVE re_findall_digits(_, _)
re_findall_digits(s, i) ==
    LET digits == {j \in i..Len(s) : IsDigit(s[j])} IN
    IF digits = {} THEN <<>>
    ELSE <<SubSeq(s, Min(digits), DigitsEnd(s, Min(digits)) - 1)>>
         \o re_findall_digits(s, DigitsEnd(s, Min(digits)))

\* s.split("."), from position i on, cur being the part read so far
RECURSIVE split_dot(_, _, _)
split_dot(s, i, cur) ==
    IF i > Len(s) THEN <<cur>>
    ELSE IF s[i] = "." THEN <<cur>> \o split_dot(s, i + 1, <<>>)
         ELSE split_dot(s, i + 1, Append(cur, s[i]))

\* \d+(\.\d+){n-1} at position i: the index just after the match, 0 when none.
\* A digit run is always taken whole: the group after it must start with ".".
RECURSIVE ReqGroups(_, _, _)
ReqGroups(s, i, n) ==
    LET e == DigitsEnd(s, i) IN
    IF e = i THEN 0
    ELSE IF n = 1 THEN e
    ELSE IF e <= Len(s) /\ s[e] = "." THEN ReqGroups(s, e + 1, n - 1)
    ELSE 0

\* (?:\.\d+){0,n} at position j, greedy: the index just after the match
RECURSIVE OptGroups(_, _, _)
OptGroups(s, j, n) ==
    IF n > 0 /\ j <= Len(s) /\ s[j] = "." /\ DigitsEnd(s, j + 1) > j + 1
    THEN OptGroups(s, DigitsEnd(s, j + 1), n - 1)
    ELSE j

\* [a-z]? at position j
OptLower(s, j) == IF j <= Len(s) /\ s[j] \in LowerLetters THEN j + 1 ELSE j

\* end of  prefix(\d+(\.\d+){req-1}(?:\.\d+){0,opt}[a-z]?)  matched at i, 0 when none
MatchEnd(s, i, prefix, req, opt, letter) ==
    IF ~StartsAt(s, i, prefix) THEN 0
    ELSE LET r == ReqGroups(s, i + Len(prefix), req) IN
         IF r = 0 THEN 0
         ELSE IF letter THEN OptLower(s, OptGroups(s, r, opt))
              ELSE OptGroups(s, r, opt)

NoMatch == <<>>

\* re.search(...).group(1): the capture of the leftmost match, NoMatch for None
re_search(s, prefix, req, opt, letter) ==
    LET hits == {i \in 1..Len(s) : MatchEnd(s, i, prefix, req, opt, letter) # 0} IN
    IF hits = {} THEN NoMatch
    ELSE SubSeq(s, Min(hits) + Len(prefix), MatchEnd(s, Min(hits), prefix, req, opt, letter) - 1)

-----------------------------------------------------------------------------
(* Python / JSON values *)

Str(s) == [t |-> "str", v |-> s]
Num(n) == [t |-> "num", v |-> n]
Null == [t |-> "null"]
List(items) == [t |-> "list", v |-> items]
Dict(pairs) == [t |-> "dict", v |-> pairs]

Pair(key, val) == [k |-> key, v |-> val]

Keys(d) == [i \in 1..Len(d.v) |-> d.v[i].k]

HasKey(d, key) == \E i \in 1..Len(d.v) : d.v[i].k = key

Get(d, key) == d.v[CHOOSE i \in 1..Len(d.v) : d.v[i].k = key].v

\* d[key] = val: an existing key keeps its position, a new key goes last
Put(d, key, val) ==
    IF HasKey(d, key)
    THEN Dict([i \in 1..Len(d.v) |-> IF d.v[i].k = key THEN Pair(key, val) ELSE d.v[i]])
    ELSE Dict(Append(d.v, Pair(key, val)))

-----------------------------------------------------------------------------
(* json.dumps(obj, indent=4, ensure_ascii=False) *)

Indent(lvl) == [i \in 1..(4 * lvl) |-> " "]

\* the JSON escape of one character (the characters this model's strings hold)
EscapeChar(c) ==
    IF c = "\"" THEN <<"\\", "\"">>
    ELSE IF c = "\\" THEN <<"\\", "\\">>
    ELSE IF c = "\n" THEN <<"\\", "n">>
    ELSE <<c>>

\* the JSON string literal of s
json_string(s) ==
    <<"\"">> \o concat([i \in 1..Len(s) |-> EscapeChar(s[i])], 1, Len(s)) \o <<"\"">>

RECURSIVE json_dumps(_, _)
RECURSIVE dump_items(_, _, _, _)

\* the items of a list or dict from the i-th on, one per line at level lvl
dump_items(items, isDict, lvl, i) ==
    LET head == <<"\n">> \o Indent(lvl)
                \o (IF isDict
                    THEN json_string(items[i].k) \o <<":", " ">> \o json_dumps(items[i].v, lvl)
                    ELSE json_dumps(items[i], lvl)) IN
    IF i = Len(items) THEN head
    ELSE head \o <<",">> \o dump_items(items, isDict, lvl, i + 1)

json_dumps(x, lvl) ==
    CASE x.t = "null" -> <<"n","u","l","l">>
      [] x.t = "num" -> py_str(x.v)
      [] x.t = "str" -> json_string(x.v)
      [] x.t = "list" ->
            IF x.v = <<>> THEN <<"[", "]">>
            ELSE <<"[">> \o dump_items(x.v, FALSE, lvl + 1, 1) \o <<"\n">> \o Indent(lvl) \o <<"]">>
      [] x.t = "dict" ->
            IF x.v = <<>> THEN <<"{", "}">>
            ELSE <<"{">> \o dump_items(x.v, TRUE, lvl + 1, 1) \o <<"\n">> \o Indent(lvl) \o <<"}">>

-----------------------------------------------------------------------------
(* generate_github.py: calculate_sha256, parse_file_info *)

c_unknown == <<"u","n","k","n","o","w","n">>
c_NotOpenGLES == <<"N","o","t","O","p","e","n","G","L","E","S">>
c_SCx == <<"S","C","x">>
c_API == <<"A","P","I">>
c_NET == <<"N","E","T">>
c_Original == <<"O","r","i","g","i","n","a","l">>
c_sub_version == <<"s","u","b","_","v","e","r","s","i","o","n">>
c_size == <<"s","i","z","e">>
c_path == <<"p","a","t","h">>
c_file_format == <<"f","i","l","e","_","f","o","r","m","a","t">>
c_illustrate == <<"i","l","l","u","s","t","r","a","t","e">>
c_sha256 == <<"s","h","a","2","5","6">>

HexDigits == <<"0","1","2","3","4","5","6","7","8","9","a","b","c","d","e","f">>

\* hashlib's hexdigest of a file's bytes.  SHA-256 itself is not computed: the
\* digest is a stand-in that keeps what the manifest shows of it, 64 lowercase
\* hexadecimal characters that depend on the content.
hexdigest(content) == [i \in 1..64 |-> HexDigits[(((content + 1) * i * i + content) % 16) + 1]]

\* the four characters of the string returned when hashing fails
c_sha256_failed == <<"U+8BA1", "U+7B97", "U+5931", "U+8D25">>

calculate_sha256(file_path) ==
    IF file_path.readable THEN hexdigest(file_path.content) ELSE c_sha256_failed

\* pathlib's Path.suffix then .lstrip("."): the text after the last dot, when the
\* dot is neither the first nor the last character of the name
file_suffix(name) ==
    LET dots == {i \in 1..Len(name) : name[i] = "."} IN
    IF dots = {} THEN <<>>
    ELSE LET p == CHOOSE d \in dots : \A e \in dots : e <= d IN
         IF 1 < p /\ p < Len(name) THEN SubSeq(name, p + 1, Len(name)) ELSE <<>>

\* urllib.parse.quote(c, safe=""): letters, digits and _.-~ pass, every other
\* character is percent-encoded (the table holds the ones file names here use)
quote_char(c) ==
    IF c \in LowerLetters \/ c \in UpperLetters \/ IsDigit(c) \/ c \in {"_", ".", "-", "~"}
    THEN <<c>>
    ELSE CASE c = "[" -> <<"%", "5", "B">>
           [] c = "]" -> <<"%", "5", "D">>
           [] c = " " -> <<"%", "2", "0">>
           [] c = "/" -> <<"%", "2", "F">>

quote(s) == concat([i \in 1..Len(s) |-> quote_char(s[i])], 1, Len(s))

github_prefix == <<"h","t","t","p","s",":","/","/","g","i","t","h","u","b",".","c","o","m","/","j","x","s","m","/","S","C","V","e","r","s","i","o","n","L","i","s","t","/","r","a","w","/","r","e","f","s","/","h","e","a","d","s","/","m","a","i","n","/">>

\* re.search(r"SCx(\d+\.\d+)", file_name)
main_version_of(file_name) ==
    LET m == re_search(file_name, c_SCx, 2, 0, FALSE) IN
    IF m # NoMatch THEN m ELSE c_unknown

\* the sub_version branch of parse_file_info for the API folder
sub_version_API(file_name) ==
    LET m == re_search(file_name, c_API, 2, Len(file_name), FALSE)
        base == IF m # NoMatch THEN c_API \o m ELSE c_unknown IN
    IF Contains(file_name, c_NotOpenGLES) THEN base \o c_NotOpenGLES ELSE base

\* the sub_version branch for the NET folder
sub_version_NET(file_name) ==
    LET m == re_search(file_name, c_SCx, 4, 0, TRUE) IN
    IF m # NoMatch THEN c_NET \o m ELSE c_unknown

\* the sub_version branch for the Original folder
sub_version_Original(file_name) ==
    LET m == re_search(file_name, c_SCx, 2, 1, FALSE) IN
    IF m # NoMatch THEN c_Original \o m ELSE c_unknown

sub_version_of(file_name, folder_type) ==
    IF folder_type = c_API THEN sub_version_API(file_name)
    ELSE IF folder_type = c_NET THEN sub_version_NET(file_name)
    ELSE IF folder_type = c_Original THEN sub_version_Original(file_name)
    ELSE c_unknown

parse_file_info(file_path, folder_type) ==
    [main_version |-> main_version_of(file_path.name),
     file_info |-> Dict(<<
        Pair(c_sub_version, Str(sub_version_of(file_path.name, folder_type))),
        Pair(c_size, Num(file_path.size)),
        Pair(c_path, Str(github_prefix \o folder_type \o <<"/">> \o quote(file_path.name))),
        Pair(c_file_format, Str(file_suffix(file_path.name))),
        Pair(c_illustrate, Str(<<>>)),
        Pair(c_sha256, Str(calculate_sha256(file_path)))>>)]

-----------------------------------------------------------------------------
(* generate_github.py: generate_json_manifest *)

c_api == <<"a","p","i">>
c_net == <<"n","e","t">>
c_original == <<"o","r","i","g","i","n","a","l">>

target_folders ==
    <<[name |-> c_API, key |-> c_api],
      [name |-> c_NET, key |-> c_net],
      [name |-> c_Original, key |-> c_original]>>

\* folder_missing without the is_dir() test
folder_missing_absent_only(folder) == folder.status = "absent"

\* not folder_path.exists() or not folder_path.is_dir()
folder_missing(folder) == folder.status # "dir"

\* folder_path.glob("*.[zZ][iI][pP]"), on one entry name
glob_zip(name) ==
    LET n == Len(name) IN
    /\ n >= 4
    /\ name[n - 3] = "."
    /\ name[n - 2] \in {"z", "Z"}
    /\ name[n - 1] \in {"i", "I"}
    /\ name[n] \in {"p", "P"}

\* folder_path.glob("*.[7zZ]"), on one entry name
glob_7z(name) ==
    LET n == Len(name) IN
    /\ n >= 2
    /\ name[n - 1] = "."
    /\ name[n] \in {"7", "z", "Z"}

\* the entries of `listing` (the folder in enumeration order) a glob yields
RECURSIVE glob_zip_files(_)
glob_zip_files(listing) ==
    IF listing = <<>> THEN <<>>
    ELSE (IF glob_zip(Head(listing).name) THEN <<Head(listing)>> ELSE <<>>)
         \o glob_zip_files(Tail(listing))

RECURSIVE glob_7z_files(_)
glob_7z_files(listing) ==
    IF listing = <<>> THEN <<>>
    ELSE (IF glob_7z(Head(listing).name) THEN <<Head(listing)>> ELSE <<>>)
         \o glob_7z_files(Tail(listing))

\* is_file without the test
is_file_any(file) == TRUE

\* file.is_file()
is_file(file) == file.kind = "file"

\* the loop over all_files: parse each regular file and append its detail to
\* the list of its main_version, a new key going last
RECURSIVE group_files(_, _, _)
group_files(all_files, folder_name, version_group) ==
    IF all_files = <<>> THEN version_group
    ELSE LET file == Head(all_files)
             file_info == parse_file_info(file, folder_name)
             main_version == file_info.main_version
             old == IF HasKey(version_group, main_version)
                    THEN Get(version_group, main_version).v ELSE <<>> IN
         IF is_file(file)
         THEN group_files(Tail(all_files), folder_name,
                          Put(version_group, main_version,
                              List(Append(old, file_info.file_info))))
         ELSE group_files(Tail(all_files), folder_name, version_group)

\* Python's a < b on lists of integers, from index i on
RECURSIVE list_less(_, _, _)
list_less(a, b, i) ==
    IF i > Len(a) THEN i <= Len(b)
    ELSE IF i > Len(b) THEN FALSE
    ELSE IF a[i] # b[i] THEN a[i] < b[i]
    ELSE list_less(a, b, i + 1)

\* one step of a stable descending sort over <<key, item>> pairs: p goes after
\* every pair whose key is not less than its own
insert_desc(sorted, p) ==
    LET lower == {i \in 1..Len(sorted) : list_less(sorted[i][1], p[1], 1)}
        pos == IF lower = {} THEN Len(sorted) + 1
               ELSE CHOOSE i \in lower : \A j \in lower : i <= j IN
    SubSeq(sorted, 1, pos - 1) \o <<p>> \o SubSeq(sorted, pos, Len(sorted))

\* list.sort(key=..., reverse=True) / sorted(..., reverse=True) on decorated
\* pairs: descending, pairs with equal keys keeping their original order
RECURSIVE sort_reverse(_)
sort_reverse(pairs) ==
    IF pairs = <<>> THEN <<>>
    ELSE insert_desc(sort_reverse(SubSeq(pairs, 1, Len(pairs) - 1)), pairs[Len(pairs)])

\* sub_version_cmp with every digit taken as a number of its own
sub_version_cmp_digitwise(sub_info) ==
    LET sub_version == Get(sub_info, c_sub_version).v
        digits == SelectSeq(sub_version, IsDigit) IN
    IF digits # <<>> THEN [i \in 1..Len(digits) |-> DigitVal(digits[i])] ELSE <<0>>

\* the key function of the sub_version sort
sub_version_cmp(sub_info) ==
    LET ver_nums == re_findall_digits(Get(sub_info, c_sub_version).v, 1) IN
    IF ver_nums # <<>> THEN [i \in 1..Len(ver_nums) |-> py_int(ver_nums[i])] ELSE <<0>>

\* version_group[main_ver].sort(key=sub_version_cmp, reverse=True)
sort_sub_versions(files) ==
    LET sorted == sort_reverse([i \in 1..Len(files) |-> <<sub_version_cmp(files[i]), files[i]>>]) IN
    [i \in 1..Len(sorted) |-> sorted[i][2]]

\* main_version_cmp with only the part before the first dot
main_version_cmp_major_only(ver) ==
    IF ver = c_unknown THEN <<-1>>
    ELSE <<py_int(split_dot(ver, 1, <<>>)[1])>>

\* the key function of the main_version sort
main_version_cmp(ver) ==
    IF ver = c_unknown THEN <<-1>>
    ELSE LET parts == split_dot(ver, 1, <<>>) IN
         [i \in 1..Len(parts) |-> py_int(parts[i])]

\* sorted(version_group.keys(), key=main_version_cmp, reverse=True)
sorted_main_vers(keys) ==
    LET sorted == sort_reverse([i \in 1..Len(keys) |-> <<main_version_cmp(keys[i]), keys[i]>>]) IN
    [i \in 1..Len(sorted) |-> sorted[i][2]]

\* both sorts: every group sorted in place, then the dict rebuilt in key order
sorted_version_group(version_group) ==
    LET vers == sorted_main_vers(Keys(version_group)) IN
    Dict([i \in 1..Len(vers) |->
            Pair(vers[i], List(sort_sub_versions(Get(version_group, vers[i]).v)))])

\* one existing folder, enumerated in the order `listing`
scan_folder(listing, folder_name) ==
    LET zip_files == glob_zip_files(listing)
        sevenz_files == glob_7z_files(listing)
        all_files == zip_files \o sevenz_files IN
    sorted_version_group(group_files(all_files, folder_name, Dict(<<>>)))

\* the orders in which the file system may enumerate a set of entries
RECURSIVE Listings(_)
Listings(entries) ==
    IF entries = {} THEN {<<>>}
    ELSE UNION {{<<first>> \o rest : rest \in Listings(entries \ {first})} : first \in entries}

-----------------------------------------------------------------------------
(* The directory trees and file names the runs are checked over *)

MaxFiles == 3   \* entries of the API folder
MaxRuns == 2    \* runs of generate_github.py over one directory tree
MaxParts == 4   \* segments of a file name handed to parse_file_info

File(name, kind, readable, size, content) ==
    [name |-> name, kind |-> kind, readable |-> readable, size |-> size, content |-> content]

ApiPool ==
    { \* SCx2.1API1.2.zip
      File(<<"S","C","x","2",".","1","A","P","I","1",".","2",".","z","i","p">>, "file", TRUE, 10, 0),
      \* SCx2.1API1.10.ZIP
      File(<<"S","C","x","2",".","1","A","P","I","1",".","1","0",".","Z","I","P">>, "file", TRUE, 0, 1),
      \* SCx2.1API1.9.z
      File(<<"S","C","x","2",".","1","A","P","I","1",".","9",".","z">>, "file", TRUE, 7, 2),
      \* SCx2.1API1.2NotOpenGLES.zip
      File(<<"S","C","x","2",".","1","A","P","I","1",".","2","N","o","t","O","p","e","n","G","L","E","S",".","z","i","p">>, "file", TRUE, 12, 3),
      \* SCx2.1API1.9.1.0.Z
      File(<<"S","C","x","2",".","1","A","P","I","1",".","9",".","1",".","0",".","Z">>, "file", TRUE, 5, 4),
      \* SCx2.10API1.8.zip, which cannot be opened for reading
      File(<<"S","C","x","2",".","1","0","A","P","I","1",".","8",".","z","i","p">>, "file", FALSE, 3, 5),
      \* SCx2.01API1.8.Zip
      File(<<"S","C","x","2",".","0","1","A","P","I","1",".","8",".","Z","i","p">>, "file", TRUE, 3, 6),
      \* [old]NotOpenGLES.7
      File(<<"[","o","l","d","]","N","o","t","O","p","e","n","G","L","E","S",".","7">>, "file", TRUE, 1, 7),
      \* SCx2.1API1.3.zip, a subdirectory
      File(<<"S","C","x","2",".","1","A","P","I","1",".","3",".","z","i","p">>, "dir", TRUE, 0, 0),
      \* SCx2.1API1.5.7z
      File(<<"S","C","x","2",".","1","A","P","I","1",".","5",".","7","z">>, "file", TRUE, 9, 8) }

NetPool ==
    { \* SCx2.3.01.12a.zip
      File(<<"S","C","x","2",".","3",".","0","1",".","1","2","a",".","z","i","p">>, "file", TRUE, 20, 11) }

OriginalPool ==
    { \* SCx2.4.40.zip
      File(<<"S","C","x","2",".","4",".","4","0",".","z","i","p">>, "file", TRUE, 30, 12) }

FolderStates(pool) ==
    {[status |-> "absent", entries |-> {}], [status |-> "notdir", entries |-> {}]}
    \cup {[status |-> "dir", entries |-> S] : S \in {T \in SUBSET pool : Cardinality(T) <= MaxFiles}}

Folders == {c_API, c_NET, c_Original}

\* the API folder in every state; of the NET and Original folders at most one
\* is anything but a folder holding all its pool
Trees ==
    {t \in {[n \in Folders |-> IF n = c_API THEN a ELSE IF n = c_NET THEN b ELSE c] :
               a \in FolderStates(ApiPool), b \in FolderStates(NetPool), c \in FolderStates(OriginalPool)} :
        \/ t[c_NET] = [status |-> "dir", entries |-> NetPool]
        \/ t[c_Original] = [status |-> "dir", entries |-> OriginalPool]}

\* a manifest.json left by an earlier session
old_manifest == <<"{", "}">>

NameSegs == {c_SCx, c_API, c_NotOpenGLES, <<"2">>, <<".", "1">>, <<".">>, <<"a">>}

RECURSIVE Names(_)
Names(n) ==
    IF n = 0 THEN {<<>>}
    ELSE Names(n - 1) \cup {x \o seg : x \in Names(n - 1), seg \in NameSegs}

-----------------------------------------------------------------------------
(* generate_github.py as a state machine: the loop over target_folders, the *)
(* return of generate_json_manifest, then __main__ opening and writing      *)
(* manifest.json                                                            *)

BuildIdle ==
    /\ fs = <<>> /\ dest = <<>> /\ dest_before = <<>> /\ pc = "idle" /\ k = 0
    /\ manifest = <<>> /\ json_manifest = <<>> /\ log = {} /\ returned = <<>>

ParseIdle == pf_in = <<>> /\ pf_out = <<>>

RewriteIdle == rw_doc = <<>> /\ rw_pc = "idle" /\ rw_out = <<>>

Init ==
    /\ fs \in Trees
    /\ dest \in {[exists |-> FALSE, data |-> <<>>], [exists |-> TRUE, data |-> old_manifest]}
    /\ dest_before = dest
    /\ pc = "scan"
    /\ k = 1
    /\ manifest = Dict(<<>>)
    /\ json_manifest = <<>>
    /\ log = {}
    /\ returned = <<>>
    /\ ParseIdle
    /\ RewriteIdle

\* one iteration of `for folder in target_folders`
ScanFolder ==
    /\ pc = "scan"
    /\ LET folder_name == target_folders[k].name
           json_key == target_folders[k].key
           folder == fs[folder_name] IN
       \/ /\ folder_missing(folder)
          /\ manifest' = Put(manifest, json_key, Null)
          /\ log' = log \cup {"folder_missing"}
       \/ /\ ~folder_missing(folder)
          /\ \E listing \in Listings(folder.entries) :
                manifest' = Put(manifest, json_key, scan_folder(listing, folder_name))
          /\ log' = IF \E f \in folder.entries :
                          /\ glob_zip(f.name) \/ glob_7z(f.name)
                          /\ is_file(f)
                          /\ calculate_sha256(f) = c_sha256_failed
                    THEN log \cup {"sha256_failed"} ELSE log
    /\ k' = k + 1
    /\ pc' = IF k = Len(target_folders) THEN "dumps" ELSE "scan"
    /\ UNCHANGED <<fs, dest, dest_before, json_manifest, returned>>
    /\ UNCHANGED <<parse_vars, rewrite_vars>>

\* return json.dumps(manifest, indent=4, ensure_ascii=False)
ReturnManifest ==
    /\ pc = "dumps"
    /\ json_manifest' = json_dumps(manifest, 0)
    /\ pc' = "open"
    /\ UNCHANGED <<fs, dest, dest_before, k, manifest, log, returned>>
    /\ UNCHANGED <<parse_vars, rewrite_vars>>

\* open(output_path, "w"): truncates the file, or raises and leaves it alone
OpenOutput ==
    /\ pc = "open"
    /\ \/ /\ dest' = [exists |-> TRUE, data |-> <<>>]
          /\ pc' = "write"
          /\ log' = log
       \/ /\ dest' = dest
          /\ pc' = "done"
          /\ log' = log \cup {"write_failed"}
    /\ UNCHANGED <<fs, dest_before, k, manifest, json_manifest, returned>>
    /\ UNCHANGED <<parse_vars, rewrite_vars>>

\* how much of the text has reached the disk when a write fails
PartialLengths(text) == {0, 1, Len(text) - 1}

\* f.write(json_manifest) and the close of the `with` block
WriteOutput ==
    /\ pc = "write"
    /\ \/ /\ dest' = [exists |-> TRUE, data |-> json_manifest]
          /\ log' = log \cup {"written"}
       \/ /\ \E n \in PartialLengths(json_manifest) :
                dest' = [exists |-> TRUE, data |-> SubSeq(json_manifest, 1, n)]
          /\ log' = log \cup {"write_failed"}
    /\ pc' = "done"
    /\ UNCHANGED <<fs, dest_before, k, manifest, json_manifest, returned>>
    /\ UNCHANGED <<parse_vars, rewrite_vars>>

\* the operator runs the script again over the same, unchanged directory tree
RunAgain ==
    /\ pc = "done"
    /\ Len(returned) + 1 < MaxRuns
    /\ returned' = Append(returned, json_manifest)
    /\ dest_before' = dest
    /\ pc' = "scan"
    /\ k' = 1
    /\ manifest' = Dict(<<>>)
    /\ json_manifest' = <<>>
    /\ log' = {}
    /\ UNCHANGED <<fs, dest>>
    /\ UNCHANGED <<parse_vars, rewrite_vars>>

Next == ScanFolder \/ ReturnManifest \/ OpenOutput \/ WriteOutput

Spec == Init /\ [][Next]_vars

\* the script run up to MaxRuns times over one tree; the NET folder is absent
RerunInit ==
    /\ Init
    /\ fs[c_NET].status = "absent"
    /\ fs[c_Original].status = "dir"
    /\ dest.exists

RerunNext == Next \/ RunAgain

RerunSpec == RerunInit /\ [][RerunNext]_vars

-----------------------------------------------------------------------------
(* parse_file_info on its own, over file names built from NameSegs *)

ParseInit ==
    /\ BuildIdle
    /\ RewriteIdle
    /\ pf_in \in {[file |-> File(name, "file", TRUE, Len(name), 0), folder_type |-> ft] :
                    name \in Names(MaxParts) \ {<<>>}, ft \in Folders}
    /\ pf_out = <<>>

Parse ==
    /\ pf_in # <<>>
    /\ pf_out = <<>>
    /\ pf_out' = <<parse_file_info(pf_in.file, pf_in.folder_type)>>
    /\ UNCHANGED <<pf_in, build_vars, rewrite_vars>>

ParseNext == Parse

ParseSpec == ParseInit /\ [][ParseNext]_vars

-----------------------------------------------------------------------------
(* json.load: the parser of the JSON text json.dump writes *)

\* the searches below look at the text eight characters at a time
\* the first index from i on that holds no white space
RECURSIVE skip_ws(_, _)
skip_ws(s, i) ==
    LET hi == IF i + 7 < Len(s) THEN i + 7 ELSE Len(s)
        stops == {j \in i..hi : s[j] \notin {" ", "\n"}} IN
    IF i > Len(s) THEN i
    ELSE IF stops # {} THEN Min(stops)
    ELSE skip_ws(s, hi + 1)

Unescape(c) == IF c = "n" THEN "\n" ELSE c

\* the number of backslashes in a row that end just before position j, counted
\* back as far as position i
BackslashRun(s, i, j) == Cardinality({n \in 1..(j - i) : \A m \in 1..n : s[j - m] = "\\"})

\* position p of a string body that starts at i holds the backslash of an escape
Escaping(s, i, p) == s[p] = "\\" /\ BackslashRun(s, i, p) % 2 = 0

\* the index of the quote that closes the string whose body starts at i,
\* searched from position from on
RECURSIVE string_end(_, _, _)
string_end(s, i, from) ==
    LET hi == IF from + 7 < Len(s) THEN from + 7 ELSE Len(s)
        quotes == {j \in from..hi : s[j] = "\"" /\ BackslashRun(s, i, j) % 2 = 0} IN
    IF quotes # {} THEN Min(quotes) ELSE string_end(s, i, hi + 1)

\* the characters of the string body s[i..e-1], escapes resolved
string_body(s, i, e) ==
    concat([p \in i..(e - 1) |->
               IF Escaping(s, i, p) THEN <<>>
               ELSE IF p > i /\ Escaping(s, i, p - 1) THEN <<Unescape(s[p])>>
               ELSE <<s[p]>>], i, e - 1)

\* the string whose opening quote is at i - 1
parse_chars(s, i) ==
    [val |-> string_body(s, i, string_end(s, i, i)), pos |-> string_end(s, i, i) + 1]

RECURSIVE parse_value(_, _)
RECURSIVE parse_members(_, _, _)
RECURSIVE parse_elements(_, _, _)

\* the members of an object, i at the first one (or at the closing brace); a
\* repeated key keeps its first position and takes the last value
parse_members(s, i, acc) ==
    IF s[i] = "}" THEN [val |-> Dict(acc), pos |-> i + 1]
    ELSE LET key == parse_chars(s, i + 1)
             colon == skip_ws(s, key.pos)
             item == parse_value(s, skip_ws(s, colon + 1))
             after == skip_ws(s, item.pos)
             acc2 == Put(Dict(acc), key.val, item.val).v IN
         IF s[after] = "," THEN parse_members(s, skip_ws(s, after + 1), acc2)
         ELSE [val |-> Dict(acc2), pos |-> after + 1]

\* the elements of an array, i at the first one (or at the closing bracket)
parse_elements(s, i, acc) ==
    IF s[i] = "]" THEN [val |-> List(acc), pos |-> i + 1]
    ELSE LET item == parse_value(s, i)
             after == skip_ws(s, item.pos)
             acc2 == Append(acc, item.val) IN
         IF s[after] = "," THEN parse_elements(s, skip_ws(s, after + 1), acc2)
         ELSE [val |-> List(acc2), pos |-> after + 1]

parse_value(s, i) ==
    CASE s[i] = "{" -> parse_members(s, skip_ws(s, i + 1), <<>>)
      [] s[i] = "[" -> parse_elements(s, skip_ws(s, i + 1), <<>>)
      [] s[i] = "\"" -> LET r == parse_chars(s, i + 1) IN [val |-> Str(r.val), pos |-> r.pos]
      [] s[i] = "n" -> [val |-> Null, pos |-> i + 4]
      [] IsDigit(s[i]) -> [val |-> Num(py_int(SubSeq(s, i, DigitsEnd(s, i) - 1))), pos |-> DigitsEnd(s, i)]

json_load(s) == parse_value(s, skip_ws(s, 1)).val

-----------------------------------------------------------------------------
(* gitee.py: replace_github_with_gitee *)

c_github == <<"g","i","t","h","u","b",".","c","o","m","/","j","x","s","m">>
c_gitee == <<"g","i","t","e","e",".","c","o","m","/","j","x","s","m","j","x","e","e">>
c_refs_heads_main == <<"r","e","f","s","/","h","e","a","d","s","/","m","a","i","n">>
c_main == <<"m","a","i","n">>

\* s[i:].replace(old, new): the occurrences of old, leftmost first, not overlapping
RECURSIVE str_replace(_, _, _, _)
str_replace(s, i, old, new) ==
    LET hits == {j \in i..Len(s) : StartsAt(s, j, old)} IN
    IF hits = {} THEN SubSeq(s, i, Len(s))
    ELSE SubSeq(s, i, Min(hits) - 1) \o new \o str_replace(s, Min(hits) + Len(old), old, new)

\* d['path'].replace('github.com/jxsm', 'gitee.com/jxsmjxee').replace('refs/heads/main', 'main')
replace_path(path) ==
    str_replace(str_replace(path, 1, c_github, c_gitee), 1, c_refs_heads_main, c_main)

\* process_dict raises AttributeError: some dict it visits holds under 'path' a
\* value that is no str and so has no replace method
RECURSIVE process_dict_raises(_)
process_dict_raises(d) ==
    CASE d.t = "dict" ->
            \/ HasKey(d, c_path) /\ Get(d, c_path).t # "str"
            \/ \E i \in 1..Len(d.v) : process_dict_raises(d.v[i].v)
      [] d.t = "list" -> \E i \in 1..Len(d.v) : process_dict_raises(d.v[i])
      [] OTHER -> FALSE

\* process_dict that does not descend into a dict in which it found a path
RECURSIVE process_dict_shallow(_)
process_dict_shallow(d) ==
    CASE d.t = "dict" ->
            Dict([i \in 1..Len(d.v) |->
                    IF d.v[i].k = c_path
                    THEN Pair(c_path, Str(replace_path(d.v[i].v.v)))
                    ELSE IF HasKey(d, c_path) THEN d.v[i]
                    ELSE Pair(d.v[i].k, process_dict_shallow(d.v[i].v))])
      [] d.t = "list" -> List([i \in 1..Len(d.v) |-> process_dict_shallow(d.v[i])])
      [] OTHER -> d

\* the document process_dict leaves behind when it does not raise: the path of
\* every dict replaced, then every value of the dict or list visited in turn
RECURSIVE process_dict(_)
process_dict(d) ==
    CASE d.t = "dict" ->
            Dict([i \in 1..Len(d.v) |->
                    IF d.v[i].k = c_path
                    THEN Pair(c_path, Str(replace_path(d.v[i].v.v)))
                    ELSE Pair(d.v[i].k, process_dict(d.v[i].v))])
      [] d.t = "list" -> List([i \in 1..Len(d.v) |-> process_dict(d.v[i])])
      [] OTHER -> d

MaxSegs == 3      \* segments of a string stored under a path key
MaxRewrites == 2  \* runs of gitee.py, each on the output of the one before

PathSegs ==
    { <<"g","i","t","h","u","b",".","c","o","m","/","j","x","s">>,
      <<"m">>,
      <<"r","e","f","s","/","h","e","a","d","s","/">>,
      <<"m","a","i","n">>,
      <<"/","x">> }

RECURSIVE PathStrings(_)
PathStrings(n) ==
    IF n = 0 THEN {<<>>}
    ELSE PathStrings(n - 1) \cup {x \o seg : x \in PathStrings(n - 1), seg \in PathSegs}

c_mirror == <<"m","i","r","r","o","r">>
c_name == <<"n","a","m","e">>

\* a record as the manifest builder emits it
sample_record ==
    parse_file_info(File(<<"S","C","x","2",".","1","A","P","I","1",".","2",".","z","i","p">>, "file", TRUE, 10, 0), c_API).file_info

\* a string that holds both replaced substrings and is stored under no path key
c_elsewhere == c_github \o <<"/">> \o c_refs_heads_main

\* the values tried under a path key: strings, and values that are no string
PathValues ==
    {Str(p) : p \in PathStrings(MaxSegs)}
    \cup {Get(sample_record, c_path)}
    \cup {Num(7), Null, Dict(<<Pair(c_path, Str(c_elsewhere))>>)}

\* the documents the rewriter is run on, x being the value under one path key
Documents ==
    UNION {
      { Dict(<<Pair(c_path, x)>>),
        Dict(<<Pair(c_api, Dict(<<Pair(<<"2", ".", "1">>,
                                      List(<<Put(sample_record, c_path, x), sample_record>>))>>)),
               Pair(c_net, Null),
               Pair(c_original, Dict(<<>>))>>),
        Dict(<<Pair(c_path, Get(sample_record, c_path)),
               Pair(c_mirror, Dict(<<Pair(c_name, Str(c_elsewhere)), Pair(c_path, x)>>))>>),
        List(<<Dict(<<Pair(c_name, Str(c_elsewhere)), Pair(c_path, x)>>), Str(c_elsewhere), Num(7)>>),
        x } : x \in PathValues }

RewriteInit ==
    /\ BuildIdle
    /\ ParseIdle
    /\ rw_doc \in {json_dumps(d, 0) : d \in Documents}
    /\ rw_pc = "ready"
    /\ rw_out = <<>>

\* one run of replace_github_with_gitee: json.load of the input file (the
\* original document, or the output of the run before), process_dict, json.dump
RewriteRun ==
    /\ rw_pc = "ready"
    /\ Len(rw_out) < MaxRewrites
    /\ LET text == IF rw_out = <<>> THEN rw_doc ELSE rw_out[Len(rw_out)]
           data == json_load(text) IN
       \/ /\ process_dict_raises(data)
          /\ rw_pc' = "crashed"
          /\ rw_out' = rw_out
       \/ /\ ~process_dict_raises(data)
          /\ rw_pc' = "ready"
          /\ rw_out' = Append(rw_out, json_dumps(process_dict(data), 0))
    /\ UNCHANGED <<rw_doc, build_vars, parse_vars>>

RewriteNext == RewriteRun

RewriteSpec == RewriteInit /\ [][RewriteNext]_vars

-----------------------------------------------------------------------------
(* Properties of the manifest builder *)

\* generate_json_manifest has just returned: json_manifest holds the text of
\* json.dumps(manifest), and no later step changes either
Returned == pc = "open"

\* the document generate_json_manifest serialised as its result
ReturnedManifest == manifest

\* tuple a ranks below tuple b: at the first index where they differ a holds the
\* smaller number, or a is a proper prefix of b
RanksBelow(a, b) ==
    \E n \in 0..Len(a) :
        /\ n <= Len(b)
        /\ \A i \in 1..n : a[i] = b[i]
        /\ \/ n = Len(a) /\ n < Len(b)
           \/ n < Len(a) /\ n < Len(b) /\ a[n + 1] < b[n + 1]

\* the integers of the decimal digit runs of a sub_version, <<0>> when none
DigitTuple(sub_version) ==
    LET runs == re_findall_digits(sub_version, 1) IN
    IF runs = <<>> THEN <<0>> ELSE [i \in 1..Len(runs) |-> py_int(runs[i])]

\* the integers of a dotted main_version key
KeyTuple(key) ==
    LET parts == split_dot(key, 1, <<>>) IN [i \in 1..Len(parts) |-> py_int(parts[i])]

\* the record lists of the groups of every non-null category
RecordLists(m) ==
    UNION {{m.v[c].v.v[g].v.v : g \in 1..Len(m.v[c].v.v)} :
             c \in {x \in 1..Len(m.v) : m.v[x].v.t = "dict"}}

\* the main_version key sequences of the non-null categories
KeyLists(m) == {Keys(m.v[c].v) : c \in {x \in 1..Len(m.v) : m.v[x].v.t = "dict"}}

SubVersion(record) == Get(record, c_sub_version).v

\* C1: in the returned manifest every group's records are in non-increasing
\* order of the tuple of the digit runs of sub_version: no record ranks below a
\* record listed after it
C1_SubVersionsNonIncreasing ==
    Returned =>
        \A recs \in RecordLists(ReturnedManifest) :
            \A i, j \in 1..Len(recs) :
                i < j => ~RanksBelow(DigitTuple(SubVersion(recs[i])), DigitTuple(SubVersion(recs[j])))

\* a returned group that lists API1.10, API1.9.1.0 and API1.9 in that order
C1_Witness ==
    /\ Returned
    /\ \E recs \in RecordLists(ReturnedManifest) :
          /\ Len(recs) = 3
          /\ SubVersion(recs[1]) = c_API \o <<"1", ".", "1", "0">>
          /\ SubVersion(recs[2]) = c_API \o <<"1", ".", "9", ".", "1", ".", "0">>
          /\ SubVersion(recs[3]) = c_API \o <<"1", ".", "9">>

C3_SameJsonEveryRun ==
    pc \in {"open", "write", "done"} => \A i \in 1..Len(returned) : returned[i] = json_manifest

\* an archive by the extension of its name: zip in any letter case, or one of
\* the single characters 7, z, Z
ArchiveExtensions ==
    {<<a, b, c>> : a \in {"z", "Z"}, b \in {"i", "I"}, c \in {"p", "P"}}
    \cup {<<"7">>, <<"z">>, <<"Z">>}

HasArchiveExtension(name) ==
    \E e \in ArchiveExtensions :
        /\ Len(name) > Len(e)
        /\ SubSeq(name, Len(name) - Len(e), Len(name)) = <<".">> \o e

\* the regular files of a folder that are archives
Archives(folder) == {f \in folder.entries : f.kind = "file" /\ HasArchiveExtension(f.name)}

\* C5: the manifest root has exactly the keys api, net, original; a category is
\* null exactly when its folder is absent or no directory; an existing folder
\* without archives gives an empty mapping; and a missing folder does not keep
\* the later folders from being scanned
C5_NullIffFolderMissing ==
    Returned =>
        LET m == ReturnedManifest IN
        /\ Keys(m) = <<c_api, c_net, c_original>>
        /\ \A i \in 1..Len(target_folders) :
              LET folder == fs[target_folders[i].name]
                  value == Get(m, target_folders[i].key) IN
              /\ value = Null <=> folder.status \in {"absent", "notdir"}
              /\ folder.status = "dir" /\ Archives(folder) = {} => value = Dict(<<>>)
              /\ folder.status = "dir" /\ Archives(folder) # {} => value.t = "dict" /\ value.v # <<>>

\* API is no directory, NET is an empty folder, Original holds an archive
C5_Witness ==
    /\ Returned
    /\ fs[c_API].status = "notdir"
    /\ fs[c_NET].status = "dir" /\ fs[c_NET].entries = {}
    /\ Archives(fs[c_Original]) # {}
    /\ Get(ReturnedManifest, c_api) = Null
    /\ Get(ReturnedManifest, c_net) = Dict(<<>>)
    /\ Get(ReturnedManifest, c_original).v # <<>>

HexCharacters == {HexDigits[i] : i \in 1..Len(HexDigits)}

\* C6: every record of the returned manifest has an sha256 of exactly 64
\* lowercase hexadecimal characters, also when a file could not be read
C6_Sha256IsHex64 ==
    Returned =>
        \A recs \in RecordLists(ReturnedManifest) :
            \A i \in 1..Len(recs) :
                LET sha256 == Get(recs[i], c_sha256).v IN
                /\ Len(sha256) = 64
                /\ \A n \in 1..Len(sha256) : sha256[n] \in HexCharacters

\* C9: when the run is over, a failed write has been reported and has left the
\* destination as it was before the run; otherwise the destination holds the
\* complete new manifest
C9_NoPartialManifest ==
    pc = "done" =>
        IF "written" \in log
        THEN dest = [exists |-> TRUE, data |-> json_manifest]
        ELSE "write_failed" \in log /\ dest = dest_before

\* the <<group, index>> positions of the records of a category
Positions(value) ==
    UNION {{<<g, r>> : r \in 1..Len(value.v[g].v.v)} : g \in 1..Len(value.v)}

-----------------------------------------------------------------------------
(* Properties of parse_file_info *)

\* the sub_version C7 states for a file of the API folder
StatedSubVersionAPI(file_name) ==
    LET m == re_search(file_name, c_API, 1, Len(file_name), FALSE) IN
    IF m = NoMatch THEN c_unknown
    ELSE c_API \o m \o (IF Contains(file_name, c_NotOpenGLES) THEN c_NotOpenGLES ELSE <<>>)

\* C7: for a file of the API folder, sub_version is "API" + the first match of
\* API followed by one or more dot-separated digit groups, with NotOpenGLES
\* appended exactly when the name contains it, and exactly "unknown" when the
\* pattern does not match
C7_SubVersionAsStated ==
    pf_out # <<>> /\ pf_in.folder_type = c_API =>
        SubVersion(pf_out[1].file_info) = StatedSubVersionAPI(pf_in.file.name)

-----------------------------------------------------------------------------
(* Properties of the mirror rewriter *)

\* C4: a run of the rewriter on the output of a run changes nothing
C4_RewriteIdempotent == Len(rw_out) >= 2 => rw_out[2] = rw_out[1]

\* some dict of the document holds under path a value that is no string
RECURSIVE HasNonStringPath(_)
HasNonStringPath(d) ==
    IF d.t = "dict"
    THEN \E i \in 1..Len(d.v) :
            \/ d.v[i].k = c_path /\ d.v[i].v.t # "str"
            \/ HasNonStringPath(d.v[i].v)
    ELSE IF d.t = "list" THEN \E i \in 1..Len(d.v) : HasNonStringPath(d.v[i])
    ELSE FALSE

\* out is inp with the same shape and keys, every value under a path key
\* replaced by the two replacements applied in order, everything else unchanged
RECURSIVE Rewritten(_, _)
Rewritten(inp, out) ==
    /\ inp.t = out.t
    /\ IF inp.t = "dict"
       THEN /\ Keys(inp) = Keys(out)
            /\ \A i \in 1..Len(inp.v) :
                  IF inp.v[i].k = c_path
                  THEN /\ inp.v[i].v.t = "str"
                       /\ out.v[i].v = Str(str_replace(str_replace(inp.v[i].v.v, 1, c_github, c_gitee),
                                                       1, c_refs_heads_main, c_main))
                  ELSE Rewritten(inp.v[i].v, out.v[i].v)
       ELSE IF inp.t = "list"
       THEN /\ Len(inp.v) = Len(out.v)
            /\ \A i \in 1..Len(inp.v) : Rewritten(inp.v[i], out.v[i])
       ELSE inp = out

\* the text the n-th run read
RewriteInput(n) == IF n = 1 THEN rw_doc ELSE rw_out[n - 1]

====
